---- MODULE Spec2Model ----
(***************************************************************************)
(* A model of gaff2xml/utils.py: the temp-directory scope, the filename    *)
(* parser, the mol2 post-process of molecule_to_mol2 and the               *)
(* parameterization-and-consistency-check pipeline of test_molecule.       *)
(*                                                                         *)
(* Strings are sequences of one-character strings; file contents are       *)
(* sequences of characters with "\n" as the line terminator.  Energies are *)
(* integers in tenths of a kJ/mol.  The interpreter is the one under which *)
(* run_tleap can write its script (text written to the default-mode        *)
(* NamedTemporaryFile is accepted).                                        *)
(***************************************************************************)
EXTENDS Integers, Sequences, FiniteSets, TLC

VARIABLES
    pc,                   \* position of the run
    cwd,                  \* the process's current working directory
    saved_cwd,            \* `cwd` local of enter_temp_directory
    temp_dir_exists,      \* whether the directory made by mkdtemp is on disk
    molecule_name,        \* title of the molecule / molecule_name argument
    tripos_arg,           \* tripos_mol2_filename argument of molecule_to_mol2 (<<>> is None)
    writer_output,        \* what OEWriteMolecule writes for the molecule
    charge_method,        \* charge_method argument ("None" or a method)
    energy_epsilon,       \* energy_epsilon argument
    tripos_mol2_filename, \* filename returned by molecule_to_mol2
    tripos_history,       \* contents of the tripos mol2 file after each write
    files,                \* filename -> number of times it was written
    parsed,               \* last result of parse_ligand_filename
    gaff_mol2_filename,
    frcmod_filename,
    ffxml_filename,
    prmtop_filename,
    inpcrd_filename,
    invocations,          \* the getoutput calls made, in order
    tool_ok,              \* tool -> whether its invocation produced its output
    simulation_ffxml,     \* Path A's simulation was built
    simulation_leap,      \* Path B's simulation was built
    params_differ,        \* the two systems differ in some force-field parameter
    energy0,
    energy1,
    checked,              \* comparison steps carried out, in order
    error                 \* the exception that ended the run, if any

vars == <<pc, cwd, saved_cwd, temp_dir_exists, molecule_name, tripos_arg,
          writer_output, charge_method, energy_epsilon, tripos_mol2_filename,
          tripos_history, files, parsed, gaff_mol2_filename, frcmod_filename,
          ffxml_filename, prmtop_filename, inpcrd_filename, invocations,
          tool_ok, simulation_ffxml, simulation_leap, params_differ, energy0,
          energy1, checked, error>>

(***************************************************************************)
(* Bounds                                                                  *)
(***************************************************************************)
MaxPrefixLen == 3
MaxTokens == 4
MaxEnergy == 3

(***************************************************************************)
(* String helpers                                                          *)
(***************************************************************************)
SeqsUpTo(S, n) == UNION {[1..k -> S] : k \in 0..n}

Abs(x) == IF x < 0 THEN -x ELSE x

\* str.rfind, 1-based; 0 when the character does not occur
RFind(s, c) ==
    IF \E i \in 1..Len(s) : s[i] = c
    THEN CHOOSE i \in 1..Len(s) : s[i] = c /\ \A j \in (i+1)..Len(s) : s[j] # c
    ELSE 0

EndsWith(s, t) ==
    Len(s) >= Len(t) /\ SubSeq(s, Len(s) - Len(t) + 1, Len(s)) = t

\* posixpath.split: head and tail around the last "/"
PathSplit(p) ==
    LET i == RFind(p, "/")
    IN  <<SubSeq(p, 1, i), SubSeq(p, i + 1, Len(p))>>

\* splitext cutting at the first dot of the basename
SplitextFirstDot(p) ==
    LET sepIndex == RFind(p, "/")
        dots == {i \in (sepIndex+1)..Len(p) : p[i] = "."}
    IN  IF dots = {} THEN <<p, <<>>>>
        ELSE LET d == CHOOSE i \in dots : \A j \in dots : i <= j
             IN  <<SubSeq(p, 1, d - 1), SubSeq(p, d, Len(p))>>

\* genericpath._splitext: cut at the last dot after the last separator,
\* unless only dots precede it in the basename
Splitext(p) ==
    LET sepIndex == RFind(p, "/")
        dotIndex == RFind(p, ".")
    IN  IF dotIndex > sepIndex
           /\ \E k \in (sepIndex+1)..(dotIndex-1) : p[k] # "."
        THEN <<SubSeq(p, 1, dotIndex - 1), SubSeq(p, dotIndex, Len(p))>>
        ELSE <<p, <<>>>>

parse_ligand_filename(filename) ==
    LET r == Splitext(PathSplit(filename)[2])
    IN  [name |-> r[1], ext |-> r[2]]

Mol2 == <<"m", "o", "l", "2">>
DotMol2 == <<".">> \o Mol2
GaffMol2Suffix == <<".", "g", "a", "f", "f">> \o DotMol2
FrcmodSuffix == <<".", "f", "r", "c", "m", "o", "d">>
FfxmlSuffix == <<".", "f", "f", "x", "m", "l">>
PrmtopSuffix == <<".", "p", "r", "m", "t", "o", "p">>
InpcrdSuffix == <<".", "i", "n", "p", "c", "r", "d">>
TriposSuffix == <<".", "t", "r", "i", "p", "o", "s">> \o DotMol2

\* validation keyed on the trailing letters only
RejectsUnlessEndsMol2(input_filename) == ~EndsWith(input_filename, Mol2)

\* run_antechamber's input check: ext[1:] != "mol2"
RejectsInput(input_filename) ==
    LET ext == parse_ligand_filename(input_filename).ext
    IN  SubSeq(ext, 2, Len(ext)) # Mol2

\* output names taken from the input file instead of the molecule name
NamesFromInput(name, input_filename) ==
    LET n == parse_ligand_filename(input_filename).name
    IN  <<n \o GaffMol2Suffix, n \o FrcmodSuffix>>

\* run_antechamber's output names
AntechamberFilenames(name, input_filename) ==
    <<name \o GaffMol2Suffix, name \o FrcmodSuffix>>

\* both outputs of tleap given the prmtop name
TleapFilenamesSame(name) == <<name \o PrmtopSuffix, name \o PrmtopSuffix>>

\* run_tleap's output names
TleapFilenames(name) == <<name \o PrmtopSuffix, name \o InpcrdSuffix>>

FfxmlFilename(name) == name \o FfxmlSuffix

DefaultTriposFilename(name) == name \o TriposSuffix

(***************************************************************************)
(* The mol2 post-process                                                   *)
(***************************************************************************)
Placeholder == <<"<", "0", ">">>
Token == <<"M", "O", "L">>

StartsWithPlaceholder(s) == Len(s) >= 3 /\ SubSeq(s, 1, 3) = Placeholder

RECURSIVE ReplaceAll(_)
\* str.replace('<0>', 'MOL'): left to right, non-overlapping, every occurrence
ReplaceAll(s) ==
    IF s = <<>> THEN <<>>
    ELSE IF StartsWithPlaceholder(s)
         THEN Token \o ReplaceAll(SubSeq(s, 4, Len(s)))
         ELSE <<Head(s)>> \o ReplaceAll(Tail(s))

RECURSIVE ReplaceFirst(_)
\* str.replace('<0>', 'MOL', 1)
ReplaceFirst(s) ==
    IF s = <<>> THEN <<>>
    ELSE IF StartsWithPlaceholder(s)
         THEN Token \o SubSeq(s, 4, Len(s))
         ELSE <<Head(s)>> \o ReplaceFirst(Tail(s))

ReplaceLine(line) == ReplaceAll(line)

RECURSIVE ReadLines(_)
\* file.readlines(): cut after every "\n", terminators kept
ReadLines(content) ==
    IF content = <<>> THEN <<>>
    ELSE LET nl == {i \in 1..Len(content) : content[i] = "\n"}
         IN  IF nl = {} THEN <<content>>
             ELSE LET k == CHOOSE i \in nl : \A j \in nl : i <= j
                  IN  <<SubSeq(content, 1, k)>>
                          \o ReadLines(SubSeq(content, k + 1, Len(content)))

RECURSIVE WriteLines(_)
\* file.writelines(lines)
WriteLines(lines) ==
    IF lines = <<>> THEN <<>> ELSE Head(lines) \o WriteLines(Tail(lines))

\* lines 178-184: read all, substitute in every line, write all
PostProcess(content) ==
    LET lines == ReadLines(content)
        newlines == [i \in 1..Len(lines) |-> ReplaceLine(lines[i])]
    IN  WriteLines(newlines)

Contains(s, t) ==
    \E i \in 1..(Len(s) - Len(t) + 1) : SubSeq(s, i, i + Len(t) - 1) = t

(***************************************************************************)
(* Inputs                                                                  *)
(***************************************************************************)
NoError == [type |-> "none", stage |-> "none", delta |-> -1]
Raise(type, stage) == [type |-> type, stage |-> stage, delta |-> -1]

Names == {<<"a">>, <<"b">>}

\* tripos_mol2_filename arguments of the pipeline; <<>> stands for None
TriposArgs ==
    {<<>>,
     <<"a">> \o DotMol2,
     <<"d", "/", "a">> \o DotMol2,
     <<"a", ".", "p", "d", "b">>,
     <<"a", ".", "M", "O", "L", "2">>,
     <<"a">>,
     <<"a">> \o GaffMol2Suffix}

WriterOutputs ==
    {<<"x", "\n">>,
     <<"<", "0", ">", "\n">>,
     <<"x", "\n", "<", "0", ">", "<", "0", ">">>}

ChargeMethods == {"None", "bcc"}

\* default of energy_epsilon, 0.5 kJ/mol, in tenths
DefaultEnergyEpsilon == 5
Epsilons == {0, 1, DefaultEnergyEpsilon}
Energies == (-MaxEnergy)..MaxEnergy

\* file contents: up to MaxTokens pieces, a piece a placeholder or one character
ContentTokens == {Placeholder, <<"<">>, <<"0">>, <<">">>, <<"\n">>, <<"x">>}
Contents == {WriteLines(t) : t \in SeqsUpTo(ContentTokens, MaxTokens)}

PrefixAlphabet == {"a", ".", "/"}
Endings ==
    {<<>>, DotMol2, Mol2, <<".", "M", "O", "L", "2">>, <<".", "m", "o", "l">>,
     DotMol2 \o <<".">>, DotMol2 \o <<"/">>, DotMol2 \o <<"a">>,
     <<".", "p", "d", "b">>, GaffMol2Suffix}
Filenames == {p \o e : p \in SeqsUpTo(PrefixAlphabet, MaxPrefixLen), e \in Endings}

(***************************************************************************)
(* State helpers                                                           *)
(***************************************************************************)
NoFiles == [f \in {} |-> 0]

Exists(fn) == fn \in DOMAIN files

\* one more write of file fn
Written(f, fn) ==
    IF fn \in DOMAIN f THEN [f EXCEPT ![fn] = @ + 1] ELSE f @@ (fn :> 1)

Invocation(tool, args, charge) == [tool |-> tool, args |-> args, charge |-> charge]

\* an invoker that raises when the tool fails
RaisesOnFailure(ok) == ~ok

\* getoutput returns the output text whatever the exit status
GetoutputRaises(ok) == FALSE

\* test_molecule comparing energies before parameters
AfterStageEnergiesFirst(stage) ==
    CASE stage = "run_antechamber" -> "ffxml"
      [] stage = "create_ffxml_simulation" -> "tleap"
      [] stage = "create_leap_simulation" -> "check_energies"
      [] stage = "check_energies" -> "check_params"
      [] stage = "check_force_parameters" -> "returned"

\* test_molecule building Path B before Path A
AfterStageLeapFirst(stage) ==
    CASE stage = "run_antechamber" -> "tleap"
      [] stage = "create_leap_simulation" -> "ffxml"
      [] stage = "create_ffxml_simulation" -> "check_params"
      [] stage = "check_force_parameters" -> "check_energies"
      [] stage = "check_energies" -> "returned"

\* the statement order of test_molecule: where control goes after each call
AfterStage(stage) ==
    CASE stage = "run_antechamber" -> "ffxml"
      [] stage = "create_ffxml_simulation" -> "tleap"
      [] stage = "create_leap_simulation" -> "check_params"
      [] stage = "check_force_parameters" -> "check_energies"
      [] stage = "check_energies" -> "returned"

\* SystemChecker.check_force_parameters: any mismatch is a hard failure
ForceParametersRaise(differ) == differ

\* the assertion accepting a delta equal to the tolerance
AssertionPassesInclusive(e0, e1, epsilon) == Abs(e0 - e1) <= epsilon

\* lines 303-304: delta = abs(energy0 - energy1); assert delta < energy_epsilon
AssertionPasses(e0, e1, epsilon) == Abs(e0 - e1) < epsilon

(***************************************************************************)
(* enter_temp_directory                                                    *)
(***************************************************************************)
\* lines 31-34: mkdtemp, getcwd, chdir, yield to the body
EnterTempDirectory ==
    /\ pc = "idle"
    /\ temp_dir_exists' = TRUE
    /\ saved_cwd' = cwd
    /\ cwd' = "temp"
    /\ pc' = "m2m_write"
    /\ UNCHANGED <<molecule_name, tripos_arg, writer_output, charge_method,
                   energy_epsilon, tripos_mol2_filename, tripos_history, files,
                   parsed, gaff_mol2_filename, frcmod_filename, ffxml_filename,
                   prmtop_filename, inpcrd_filename, invocations, tool_ok,
                   simulation_ffxml, simulation_leap, params_differ, energy0,
                   energy1, checked, error>>

\* lines 35-36: the body returned, the generator resumes after the yield
ExitNormal ==
    /\ pc = "returned"
    /\ cwd' = saved_cwd
    /\ temp_dir_exists' = FALSE
    /\ pc' = "left"
    /\ UNCHANGED <<saved_cwd, molecule_name, tripos_arg, writer_output,
                   charge_method, energy_epsilon, tripos_mol2_filename,
                   tripos_history, files, parsed, gaff_mol2_filename,
                   frcmod_filename, ffxml_filename, prmtop_filename,
                   inpcrd_filename, invocations, tool_ok, simulation_ffxml,
                   simulation_leap, params_differ, energy0, energy1, checked,
                   error>>

\* the body raised: the exception is thrown into the generator at the yield
\* of line 34, which has no try/finally, so lines 35-36 are not run
ExitException ==
    /\ pc = "raised"
    /\ pc' = "left"
    /\ UNCHANGED <<cwd, saved_cwd, temp_dir_exists, molecule_name, tripos_arg,
                   writer_output, charge_method, energy_epsilon,
                   tripos_mol2_filename, tripos_history, files, parsed,
                   gaff_mol2_filename, frcmod_filename, ffxml_filename,
                   prmtop_filename, inpcrd_filename, invocations, tool_ok,
                   simulation_ffxml, simulation_leap, params_differ, energy0,
                   energy1, checked, error>>

(***************************************************************************)
(* molecule_to_mol2                                                        *)
(***************************************************************************)
\* lines 165-175: name the file and write the molecule with the OE writer
MoleculeToMol2Write ==
    /\ pc = "m2m_write"
    /\ LET fn == IF tripos_arg = <<>> THEN DefaultTriposFilename(molecule_name)
                 ELSE tripos_arg
       IN  /\ tripos_mol2_filename' = fn
           /\ files' = Written(files, fn)
    /\ tripos_history' = <<writer_output>>
    /\ pc' = "m2m_patch"
    /\ UNCHANGED <<cwd, saved_cwd, temp_dir_exists, molecule_name, tripos_arg,
                   writer_output, charge_method, energy_epsilon, parsed,
                   gaff_mol2_filename, frcmod_filename, ffxml_filename,
                   prmtop_filename, inpcrd_filename, invocations, tool_ok,
                   simulation_ffxml, simulation_leap, params_differ, energy0,
                   energy1, checked, error>>

\* lines 177-186: reopen the file, replace the placeholder, write it back
MoleculeToMol2Patch ==
    /\ pc = "m2m_patch"
    /\ tripos_history' =
           Append(tripos_history, PostProcess(tripos_history[Len(tripos_history)]))
    /\ files' = Written(files, tripos_mol2_filename)
    /\ pc' = "ra_validate"
    /\ UNCHANGED <<cwd, saved_cwd, temp_dir_exists, molecule_name, tripos_arg,
                   writer_output, charge_method, energy_epsilon,
                   tripos_mol2_filename, parsed, gaff_mol2_filename,
                   frcmod_filename, ffxml_filename, prmtop_filename,
                   inpcrd_filename, invocations, tool_ok, simulation_ffxml,
                   simulation_leap, params_differ, energy0, energy1, checked,
                   error>>

\* lines 177-184 run once more over the file they produced
PostProcessAgain ==
    /\ pc = "ra_validate"
    /\ Len(tripos_history) = 2
    /\ tripos_history' =
           Append(tripos_history, PostProcess(tripos_history[Len(tripos_history)]))
    /\ files' = Written(files, tripos_mol2_filename)
    /\ UNCHANGED <<pc, cwd, saved_cwd, temp_dir_exists, molecule_name,
                   tripos_arg, writer_output, charge_method, energy_epsilon,
                   tripos_mol2_filename, parsed, gaff_mol2_filename,
                   frcmod_filename, ffxml_filename, prmtop_filename,
                   inpcrd_filename, invocations, tool_ok, simulation_ffxml,
                   simulation_leap, params_differ, energy0, energy1, checked,
                   error>>

(***************************************************************************)
(* parse_ligand_filename, called on its own                                *)
(***************************************************************************)
\* lines 39-42
ParseLigandFilename ==
    /\ pc = "parse"
    /\ parsed' = parse_ligand_filename(tripos_mol2_filename)
    /\ pc' = "ra_validate"
    /\ UNCHANGED <<cwd, saved_cwd, temp_dir_exists, molecule_name, tripos_arg,
                   writer_output, charge_method, energy_epsilon,
                   tripos_mol2_filename, tripos_history, files,
                   gaff_mol2_filename, frcmod_filename, ffxml_filename,
                   prmtop_filename, inpcrd_filename, invocations, tool_ok,
                   simulation_ffxml, simulation_leap, params_differ, energy0,
                   energy1, checked, error>>

(***************************************************************************)
(* run_antechamber                                                         *)
(***************************************************************************)
\* lines 65-72: check the extension, then name the outputs
RunAntechamberValidate ==
    /\ pc = "ra_validate"
    /\ parsed' = parse_ligand_filename(tripos_mol2_filename)
    /\ IF RejectsInput(tripos_mol2_filename)
       THEN /\ error' = Raise("ValueError", "run_antechamber")
            /\ pc' = "raised"
            /\ UNCHANGED <<gaff_mol2_filename, frcmod_filename>>
       ELSE /\ gaff_mol2_filename' =
                   AntechamberFilenames(molecule_name, tripos_mol2_filename)[1]
            /\ frcmod_filename' =
                   AntechamberFilenames(molecule_name, tripos_mol2_filename)[2]
            /\ pc' = "ra_antechamber"
            /\ UNCHANGED error
    /\ UNCHANGED <<cwd, saved_cwd, temp_dir_exists, molecule_name, tripos_arg,
                   writer_output, charge_method, energy_epsilon,
                   tripos_mol2_filename, tripos_history, files, ffxml_filename,
                   prmtop_filename, inpcrd_filename, invocations, tool_ok,
                   simulation_ffxml, simulation_leap, params_differ, energy0,
                   energy1, checked>>

\* lines 74-81: build the antechamber command and run it with getoutput
RunAntechamberInvoke ==
    /\ pc = "ra_antechamber"
    /\ \E ok \in BOOLEAN :
          /\ invocations' = Append(invocations,
                 Invocation("antechamber",
                            <<tripos_mol2_filename, gaff_mol2_filename>>,
                            charge_method))
          /\ tool_ok' = [tool_ok EXCEPT !["antechamber"] = IF ok THEN "ok" ELSE "failed"]
          /\ files' = IF ok THEN Written(files, gaff_mol2_filename) ELSE files
          /\ IF GetoutputRaises(ok)
             THEN /\ error' = Raise("ToolError", "antechamber")
                  /\ pc' = "raised"
             ELSE /\ pc' = "ra_parmchk"
                  /\ UNCHANGED error
    /\ UNCHANGED <<cwd, saved_cwd, temp_dir_exists, molecule_name, tripos_arg,
                   writer_output, charge_method, energy_epsilon,
                   tripos_mol2_filename, tripos_history, parsed,
                   gaff_mol2_filename, frcmod_filename, ffxml_filename,
                   prmtop_filename, inpcrd_filename, simulation_ffxml,
                   simulation_leap, params_differ, energy0, energy1, checked>>

\* lines 83-89: build the parmchk command, run it, return the two names
RunParmchk ==
    /\ pc = "ra_parmchk"
    /\ \E ok \in BOOLEAN :
          /\ invocations' = Append(invocations,
                 Invocation("parmchk",
                            <<gaff_mol2_filename, frcmod_filename>>, "None"))
          /\ tool_ok' = [tool_ok EXCEPT !["parmchk"] = IF ok THEN "ok" ELSE "failed"]
          /\ files' = IF ok THEN Written(files, frcmod_filename) ELSE files
          /\ IF GetoutputRaises(ok)
             THEN /\ error' = Raise("ToolError", "parmchk")
                  /\ pc' = "raised"
             ELSE /\ pc' = AfterStage("run_antechamber")
                  /\ UNCHANGED error
    /\ UNCHANGED <<cwd, saved_cwd, temp_dir_exists, molecule_name, tripos_arg,
                   writer_output, charge_method, energy_epsilon,
                   tripos_mol2_filename, tripos_history, parsed,
                   gaff_mol2_filename, frcmod_filename, ffxml_filename,
                   prmtop_filename, inpcrd_filename, simulation_ffxml,
                   simulation_leap, params_differ, energy0, energy1, checked>>

(***************************************************************************)
(* create_ffxml_simulation (Path A)                                        *)
(***************************************************************************)
\* lines 207-233: parse gaff.dat, the GAFF mol2 and the frcmod, write the
\* ffxml, read the mol2 again, build the system and the simulation
CreateFfxmlSimulation ==
    /\ pc = "ffxml"
    /\ IF ~Exists(gaff_mol2_filename) \/ ~Exists(frcmod_filename)
       THEN \* parse_filenames opens a file that is not there
            /\ error' = Raise("IOError", "create_ffxml_simulation")
            /\ pc' = "raised"
            /\ UNCHANGED <<files, ffxml_filename, simulation_ffxml>>
       ELSE \E outcome \in {"ok", "parse_error", "system_error"} :
               CASE outcome = "parse_error" ->
                        /\ error' = Raise("ParseError", "create_ffxml_simulation")
                        /\ pc' = "raised"
                        /\ UNCHANGED <<files, ffxml_filename, simulation_ffxml>>
                 [] outcome = "system_error" ->
                        /\ ffxml_filename' = FfxmlFilename(molecule_name)
                        /\ files' = Written(files, FfxmlFilename(molecule_name))
                        /\ error' = Raise("SystemError", "create_ffxml_simulation")
                        /\ pc' = "raised"
                        /\ UNCHANGED simulation_ffxml
                 [] outcome = "ok" ->
                        /\ ffxml_filename' = FfxmlFilename(molecule_name)
                        /\ files' = Written(files, FfxmlFilename(molecule_name))
                        /\ simulation_ffxml' = TRUE
                        /\ pc' = AfterStage("create_ffxml_simulation")
                        /\ UNCHANGED error
    /\ UNCHANGED <<cwd, saved_cwd, temp_dir_exists, molecule_name, tripos_arg,
                   writer_output, charge_method, energy_epsilon,
                   tripos_mol2_filename, tripos_history, parsed,
                   gaff_mol2_filename, frcmod_filename, prmtop_filename,
                   inpcrd_filename, invocations, tool_ok, simulation_leap,
                   params_differ, energy0, energy1, checked>>

(***************************************************************************)
(* create_leap_simulation (Path B)                                         *)
(***************************************************************************)
\* run_tleap, lines 122-148, called from line 252
RunTleap ==
    /\ pc = "tleap"
    /\ prmtop_filename' = TleapFilenames(molecule_name)[1]
    /\ inpcrd_filename' = TleapFilenames(molecule_name)[2]
    /\ \E ok \in BOOLEAN :
          /\ invocations' = Append(invocations,
                 Invocation("tleap",
                            <<gaff_mol2_filename, frcmod_filename,
                              TleapFilenames(molecule_name)[1],
                              TleapFilenames(molecule_name)[2]>>, "None"))
          /\ tool_ok' = [tool_ok EXCEPT !["tleap"] = IF ok THEN "ok" ELSE "failed"]
          /\ files' = IF ok
                      THEN Written(Written(files, TleapFilenames(molecule_name)[1]),
                                   TleapFilenames(molecule_name)[2])
                      ELSE files
          /\ IF GetoutputRaises(ok)
             THEN /\ error' = Raise("ToolError", "tleap")
                  /\ pc' = "raised"
             ELSE /\ pc' = "leap_load"
                  /\ UNCHANGED error
    /\ UNCHANGED <<cwd, saved_cwd, temp_dir_exists, molecule_name, tripos_arg,
                   writer_output, charge_method, energy_epsilon,
                   tripos_mol2_filename, tripos_history, parsed,
                   gaff_mol2_filename, frcmod_filename, ffxml_filename,
                   simulation_ffxml, simulation_leap, params_differ, energy0,
                   energy1, checked>>

\* lines 254-271: load the prmtop and the inpcrd, build the simulation
CreateLeapSimulationLoad ==
    /\ pc = "leap_load"
    /\ IF ~Exists(prmtop_filename) \/ ~Exists(inpcrd_filename)
       THEN /\ error' = Raise("IOError", "create_leap_simulation")
            /\ pc' = "raised"
            /\ UNCHANGED <<simulation_leap, params_differ, energy0, energy1>>
       ELSE /\ simulation_leap' = TRUE
            /\ params_differ' \in BOOLEAN
            /\ energy0' \in Energies
            /\ energy1' \in Energies
            /\ pc' = AfterStage("create_leap_simulation")
            /\ UNCHANGED error
    /\ UNCHANGED <<cwd, saved_cwd, temp_dir_exists, molecule_name, tripos_arg,
                   writer_output, charge_method, energy_epsilon,
                   tripos_mol2_filename, tripos_history, files, parsed,
                   gaff_mol2_filename, frcmod_filename, ffxml_filename,
                   prmtop_filename, inpcrd_filename, invocations, tool_ok,
                   simulation_ffxml, checked>>

(***************************************************************************)
(* The comparison of test_molecule                                         *)
(***************************************************************************)
\* lines 299-300
CheckForceParameters ==
    /\ pc = "check_params"
    /\ checked' = Append(checked, "parameters")
    /\ IF ForceParametersRaise(params_differ)
       THEN /\ error' = Raise("ParameterMismatch", "check_force_parameters")
            /\ pc' = "raised"
       ELSE /\ pc' = AfterStage("check_force_parameters")
            /\ UNCHANGED error
    /\ UNCHANGED <<cwd, saved_cwd, temp_dir_exists, molecule_name, tripos_arg,
                   writer_output, charge_method, energy_epsilon,
                   tripos_mol2_filename, tripos_history, files, parsed,
                   gaff_mol2_filename, frcmod_filename, ffxml_filename,
                   prmtop_filename, inpcrd_filename, invocations, tool_ok,
                   simulation_ffxml, simulation_leap, params_differ, energy0,
                   energy1>>

\* lines 302-304
CheckEnergies ==
    /\ pc = "check_energies"
    /\ checked' = Append(checked, "energies")
    /\ IF AssertionPasses(energy0, energy1, energy_epsilon)
       THEN /\ pc' = AfterStage("check_energies")
            /\ UNCHANGED error
       ELSE /\ error' = [type |-> "AssertionError", stage |-> "check_energies",
                         delta |-> Abs(energy0 - energy1)]
            /\ pc' = "raised"
    /\ UNCHANGED <<cwd, saved_cwd, temp_dir_exists, molecule_name, tripos_arg,
                   writer_output, charge_method, energy_epsilon,
                   tripos_mol2_filename, tripos_history, files, parsed,
                   gaff_mol2_filename, frcmod_filename, ffxml_filename,
                   prmtop_filename, inpcrd_filename, invocations, tool_ok,
                   simulation_ffxml, simulation_leap, params_differ, energy0,
                   energy1>>

(***************************************************************************)
(* Specifications                                                          *)
(***************************************************************************)
\* the state before anything has run
Fresh ==
    /\ cwd = "orig"
    /\ saved_cwd = "unset"
    /\ temp_dir_exists = FALSE
    /\ tripos_history = <<>>
    /\ files = NoFiles
    /\ parsed = [name |-> <<>>, ext |-> <<>>]
    /\ gaff_mol2_filename = <<>>
    /\ frcmod_filename = <<>>
    /\ ffxml_filename = <<>>
    /\ prmtop_filename = <<>>
    /\ inpcrd_filename = <<>>
    /\ invocations = <<>>
    /\ tool_ok = [t \in {"antechamber", "parmchk", "tleap"} |-> "not_run"]
    /\ simulation_ffxml = FALSE
    /\ simulation_leap = FALSE
    /\ params_differ = FALSE
    /\ energy0 = 0
    /\ energy1 = 0
    /\ checked = <<>>
    /\ error = NoError

\* a pipeline run inside enter_temp_directory: molecule_to_mol2, then
\* test_molecule on the name and file it returned
Init ==
    /\ Fresh
    /\ pc = "idle"
    /\ molecule_name \in Names
    /\ tripos_arg \in TriposArgs
    /\ writer_output \in WriterOutputs
    /\ charge_method \in ChargeMethods
    /\ energy_epsilon \in Epsilons
    /\ tripos_mol2_filename = <<>>

Next ==
    \/ EnterTempDirectory
    \/ MoleculeToMol2Write
    \/ MoleculeToMol2Patch
    \/ RunAntechamberValidate
    \/ RunAntechamberInvoke
    \/ RunParmchk
    \/ CreateFfxmlSimulation
    \/ RunTleap
    \/ CreateLeapSimulationLoad
    \/ CheckForceParameters
    \/ CheckEnergies
    \/ ExitNormal
    \/ ExitException

Spec == Init /\ [][Next]_vars

\* parse_ligand_filename and run_antechamber called on any filename
InitParse ==
    /\ Fresh
    /\ pc = "parse"
    /\ molecule_name \in Names
    /\ tripos_arg = <<>>
    /\ writer_output = <<>>
    /\ charge_method \in ChargeMethods
    /\ energy_epsilon = DefaultEnergyEpsilon
    /\ tripos_mol2_filename \in Filenames

NextParse ==
    \/ ParseLigandFilename
    \/ RunAntechamberValidate
    \/ RunAntechamberInvoke
    \/ RunParmchk

SpecParse == InitParse /\ [][NextParse]_vars

\* molecule_to_mol2 on any writer output, and its post-process repeated
InitMol2 ==
    /\ Fresh
    /\ pc = "m2m_write"
    /\ molecule_name = <<"a">>
    /\ tripos_arg = <<>>
    /\ writer_output \in Contents
    /\ charge_method = "None"
    /\ energy_epsilon = DefaultEnergyEpsilon
    /\ tripos_mol2_filename = <<>>

NextMol2 ==
    \/ MoleculeToMol2Write
    \/ MoleculeToMol2Patch
    \/ PostProcessAgain

SpecMol2 == InitMol2 /\ [][NextMol2]_vars

(***************************************************************************)
(* Properties                                                              *)
(***************************************************************************)
ToolsInvoked == [i \in DOMAIN invocations |-> invocations[i].tool]

IsPrefix(s, t) == Len(s) <= Len(t) /\ SubSeq(t, 1, Len(s)) = s

Did(step) == \E i \in DOMAIN checked : checked[i] = step

\* the part of p after its last "/", stated without the parser
IsBasenameOf(b, p) ==
    /\ Len(b) <= Len(p)
    /\ SubSeq(p, Len(p) - Len(b) + 1, Len(p)) = b
    /\ \A i \in 1..Len(b) : b[i] # "/"
    /\ (Len(b) = Len(p) \/ p[Len(p) - Len(b)] = "/")

\* C1: after the context of enter_temp_directory is left, by return or by
\* exception, the working directory is the one recorded on entry and the
\* temporary directory is gone.
C1_TempDirectoryRestored ==
    pc = "left" => (cwd = "orig" /\ cwd = saved_cwd /\ ~temp_dir_exists)

\* C2: an input whose extension is not exactly ".mol2" makes run_antechamber
\* raise ValueError with no external invocation made.
C2_NonMol2Rejected ==
    (/\ pc \notin {"parse", "ra_validate"}
     /\ \/ parsed.ext # <<".", "m", "o", "l", "2">>
        \/ ~EndsWith(tripos_mol2_filename, <<".", "m", "o", "l", "2">>))
        => (/\ pc = "raised"
            /\ error.type = "ValueError"
            /\ invocations = <<>>
            /\ \A t \in DOMAIN tool_ok : tool_ok[t] = "not_run")

C2_Witness ==
    /\ pc = "raised"
    /\ error.type = "ValueError"
    /\ parsed.ext = <<".", "M", "O", "L", "2">>
    /\ invocations = <<>>

\* C3: parse_ligand_filename returns (name, ext) with name + ext the basename
\* of the filename, and ext empty or a "." followed by no further ".".
C3_ParseRoundTrip ==
    pc # "parse" =>
        /\ IsBasenameOf(parsed.name \o parsed.ext, tripos_mol2_filename)
        /\ \/ parsed.ext = <<>>
           \/ /\ parsed.ext[1] = "."
              /\ \A i \in 2..Len(parsed.ext) : parsed.ext[i] # "."

C3_Witness ==
    /\ pc # "parse"
    /\ tripos_mol2_filename = <<"/", ".", "a", ".", "g", "a", "f", "f", ".", "m", "o", "l", "2">>
    /\ parsed.name = <<".", "a", ".", "g", "a", "f", "f">>
    /\ parsed.ext = <<".", "m", "o", "l", "2">>

\* C4: the post-process leaves a file without "<0>" unchanged, leaves no "<0>"
\* in its output, keeps every line terminator where it was (so the number and
\* order of lines), changes only characters of a placeholder, and applied a
\* second time changes nothing.
C4_PostProcessTotalIdempotent ==
    Len(tripos_history) >= 2 =>
        LET w == tripos_history[1]
            o == tripos_history[2]
        IN  /\ (~Contains(w, <<"<", "0", ">">>) => o = w)
            /\ ~Contains(o, <<"<", "0", ">">>)
            /\ Len(o) = Len(w)
            /\ Len(ReadLines(o)) = Len(ReadLines(w))
            /\ \A i \in 1..Len(w) :
                  \/ o[i] = w[i]
                  \/ w[i] \in {"<", "0", ">"} /\ o[i] \in {"M", "O", "L"}
            /\ (Len(tripos_history) >= 3 => tripos_history[3] = o)

C4_Witness ==
    /\ Len(tripos_history) = 3
    /\ tripos_history[1] = <<"<", "0", ">", "\n", "<", "0", ">">>
    /\ tripos_history[3] = <<"M", "O", "L", "\n", "M", "O", "L">>

\* C5: the parameter comparison is the first comparison made, and when the
\* two systems differ in a parameter the run ends there with its error: the
\* energies are never compared and the run does not pass, whatever the
\* tolerance.
C5_ParametersBeforeEnergies ==
    /\ (checked # <<>> => checked[1] = "parameters")
    /\ (params_differ /\ checked # <<>>) =>
           /\ checked = <<"parameters">>
           /\ pc \in {"raised", "left"}
           /\ error.stage = "check_force_parameters"
    /\ params_differ => pc # "returned"

C5_Witness ==
    /\ params_differ
    /\ pc = "raised"
    /\ error.stage = "check_force_parameters"
    /\ energy0 = energy1
    /\ energy_epsilon = 5

C7_ToolOrder ==
    /\ IsPrefix(ToolsInvoked, <<"antechamber", "parmchk", "tleap">>)
    /\ (pc \in {"ffxml", "tleap"} => ToolsInvoked = <<"antechamber", "parmchk">>)
    /\ (error.stage = "create_ffxml_simulation"
            => ToolsInvoked = <<"antechamber", "parmchk">>)
    /\ (pc = "tleap" => simulation_ffxml)
    /\ (tool_ok["tleap"] # "not_run" => simulation_ffxml)
    /\ (simulation_leap => simulation_ffxml)

C7_Witness ==
    /\ pc = "left"
    /\ error.type = "none"
    /\ ToolsInvoked = <<"antechamber", "parmchk", "tleap">>
    /\ simulation_ffxml /\ simulation_leap

C10_NoArtifactRewritten ==
    \A f \in DOMAIN files : files[f] <= 1

\* C10, amended: every artifact but the tripos mol2 is written at most once;
\* the tripos mol2 is written exactly twice, both times by molecule_to_mol2
\* (the writer, then the placeholder patch), and by no later stage unless it
\* was named <name>.gaff.mol2, the file antechamber writes.
C10_OnlyTriposRewritten ==
    /\ \A f \in DOMAIN files : f # tripos_mol2_filename => files[f] = 1
    /\ (pc = "m2m_patch" => files[tripos_mol2_filename] = 1)
    /\ (Exists(tripos_mol2_filename) /\ pc # "m2m_patch"
            => IF tripos_mol2_filename = gaff_mol2_filename
                   /\ tool_ok["antechamber"] = "ok"
               THEN files[tripos_mol2_filename] = 3
               ELSE files[tripos_mol2_filename] = 2)

C10_Witness ==
    /\ pc = "left"
    /\ error.type = "none"
    /\ tripos_arg = <<>>
    /\ files[tripos_mol2_filename] = 2
    /\ Cardinality(DOMAIN files) = 6

====
